---------------------------- MODULE Spec2Model ----------------------------
(***************************************************************************)
(* Model of vot/region/shapes.py: the four region variants (Special,       *)
(* Rectangle, Polygon, Mask), their constructors, copy(), convert() and    *)
(* Mask.get_array().                                                       *)
(*                                                                         *)
(* Objects live in a store (objs); the mutable backing storage of a        *)
(* region (a Polygon's points list, a Mask's numpy array) lives in a heap  *)
(* and the region holds a reference to it, so that aliasing is visible.    *)
(*                                                                         *)
(* Real-valued coordinates (Rectangle fields, Polygon vertices, the        *)
(* argument of Special) are kept in HALF units: the model value v stands   *)
(* for the Python number v/2, so 3 is 1.5 and 4 is the integer 2.  Mask    *)
(* offsets, bitmap shapes and bitmap cells are plain integers.             *)
(***************************************************************************)
EXTENDS Integers, Sequences, FiniteSets

VARIABLES objs, made, heap, ret

vars == <<objs, made, heap, ret>>

(***************************************************************************)
(* Bounds of the model.                                                    *)
(***************************************************************************)
\* largest magnitude of a rectangle coordinate, in whole pixels
MaxOff == 1
\* largest magnitude of the offset of a directly constructed mask, in pixels
MaxShift == 2
\* largest width / height of a constructed rectangle, in whole pixels
MaxDim == 2
\* largest number of cells (rows * cols) of a directly constructed mask array
MaxCells == 4
\* largest number of vertices of a directly constructed polygon
MaxPts == 3
\* largest component of a requested get_array output size
MaxOut == 1
\* number of region objects one behaviour creates
MaxObjs == 3

(***************************************************************************)
(* RegionType (an Enum) and the exceptions the code can raise.             *)
(***************************************************************************)
RegionType == {"SPECIAL", "RECTANGLE", "POLYGON", "MASK"}

NoError == "none"

(***************************************************************************)
(* Numbers.                                                                *)
(***************************************************************************)
Min2(a, b) == IF a <= b THEN a ELSE b

Max2(a, b) == IF a >= b THEN a ELSE b

SetMin(S) == CHOOSE m \in S : \A e \in S : m <= e

SetMax(S) == CHOOSE m \in S : \A e \in S : m >= e

\* is the half-unit value v a Python integer value
IsWhole(v) == v % 2 = 0

\* int(round(v/2)) and np.round(v/2).astype(int32): round half to even
Round(v) ==
    IF v % 2 = 0 THEN v \div 2
    ELSE LET k == (v - 1) \div 2
         IN  IF k % 2 = 0 THEN k ELSE k + 1

\* int(v/2): truncation toward zero
IntTrunc(v) == IF v >= 0 THEN v \div 2 ELSE -((-v) \div 2)

\* ndarray.astype(np.uint8) of one integer cell: wraps modulo 256
AsUint8(v) == v % 256

(***************************************************************************)
(* numpy arrays of two dimensions: [rows, cols, d], d[r][c] with r in      *)
(* 1..rows and c in 1..cols (Python index r-1, c-1).  rows or cols may be  *)
(* 0.                                                                      *)
(***************************************************************************)
Fill(h, w, v) ==
    [rows |-> h, cols |-> w, d |-> [r \in 1..h |-> [c \in 1..w |-> v]]]

\* a Python slice bound i against a dimension of length n: a negative bound
\* counts from the end, and every bound is clipped to 0..n
SliceIdx(i, n) == IF i < 0 THEN Max2(0, i + n) ELSE Min2(i, n)

\* a[y0:y1, x0:x1]
Crop(a, y0, y1, x0, x1) ==
    LET ys == SliceIdx(y0, a.rows)
        ye == SliceIdx(y1, a.rows)
        xs == SliceIdx(x0, a.cols)
        xe == SliceIdx(x1, a.cols)
        h  == Max2(0, ye - ys)
        w  == Max2(0, xe - xs)
    IN  [rows |-> h, cols |-> w,
         d |-> [r \in 1..h |-> [c \in 1..w |-> a.d[ys + r][xs + c]]]]

\* np.pad(a, ((0, py), (0, px)), 'constant', constant_values=0)
PadZero(a, py, px) ==
    [rows |-> a.rows + py, cols |-> a.cols + px,
     d |-> [r \in 1..(a.rows + py) |-> [c \in 1..(a.cols + px) |->
              IF r <= a.rows /\ c <= a.cols THEN a.d[r][c] ELSE 0]]]

HasNonzero(a) == \E r \in 1..a.rows : \E c \in 1..a.cols : a.d[r][c] # 0

\* can an array of shape (sh, sw) be assigned to a slice of shape (dh, dw):
\* equal shapes, or a source dimension of 1, which numpy broadcasts
Broadcastable(sh, sw, dh, dw) == (sh = dh \/ sh = 1) /\ (sw = dw \/ sw = 1)

\* a[y0:y1, x0:x1] = b, for shapes that satisfy Broadcastable
AssignSlice(a, y0, y1, x0, x1, b) ==
    LET ys == SliceIdx(y0, a.rows)
        ye == SliceIdx(y1, a.rows)
        xs == SliceIdx(x0, a.cols)
        xe == SliceIdx(x1, a.cols)
    IN  [rows |-> a.rows, cols |-> a.cols,
         d |-> [r \in 1..a.rows |-> [c \in 1..a.cols |->
                  IF ys < r /\ r <= ye /\ xs < c /\ c <= xe
                  THEN b.d[IF b.rows = 1 THEN 1 ELSE r - ys]
                          [IF b.cols = 1 THEN 1 ELSE c - xs]
                  ELSE a.d[r][c]]]]

(***************************************************************************)
(* vot.region.utils.mask2bbox.  Its code is not in this file; it is        *)
(* modelled from the specification (section 4.8): the smallest integer     *)
(* rectangle (x0, y0, x1, y1) enclosing all nonzero entries, in the        *)
(* bitmap's own frame.  The half-open convention is the one the callers    *)
(* need: Mask._optimize slices mask[y0:y1, x0:x1] and Mask.convert takes   *)
(* x1 - x0 as the width.  An all-zero bitmap gives the degenerate box      *)
(* (0, 0, 0, 0).                                                           *)
(***************************************************************************)
mask2bbox(a) ==
    LET R == {r \in 1..a.rows : \E c \in 1..a.cols : a.d[r][c] # 0}
        C == {c \in 1..a.cols : \E r \in 1..a.rows : a.d[r][c] # 0}
    IN  IF R = {} THEN <<0, 0, 0, 0>>
        ELSE <<SetMin(C) - 1, SetMin(R) - 1, SetMax(C), SetMax(R)>>

(***************************************************************************)
(* cv2.fillConvexPoly(m, pts, 1): the external rasterizer, modelled from   *)
(* the specification (section 4.5, step 4): writes 1 into every cell of m  *)
(* that lies in the closed convex polygon with the integer vertices pts    *)
(* (pixel (c, r) is column c, row r); vertices outside m are clipped.      *)
(***************************************************************************)
Cross(p, q, z) == (q[1] - p[1]) * (z[2] - p[2]) - (q[2] - p[2]) * (z[1] - p[1])

InConvexPoly(pts, z) ==
    LET n == Len(pts)
        nxt(i) == IF i = n THEN 1 ELSE i + 1
        xs == {pts[i][1] : i \in 1..n}
        ys == {pts[i][2] : i \in 1..n}
    IN  /\ SetMin(xs) <= z[1] /\ z[1] <= SetMax(xs)
        /\ SetMin(ys) <= z[2] /\ z[2] <= SetMax(ys)
        /\ \/ \A i \in 1..n : Cross(pts[i], pts[nxt(i)], z) >= 0
           \/ \A i \in 1..n : Cross(pts[i], pts[nxt(i)], z) <= 0

fillConvexPoly(m, pts) ==
    [rows |-> m.rows, cols |-> m.cols,
     d |-> [r \in 1..m.rows |-> [c \in 1..m.cols |->
              IF InConvexPoly(pts, <<c - 1, r - 1>>) THEN 1 ELSE m.d[r][c]]]]

(***************************************************************************)
(* Regions.  An operation returns an outcome [err, obj, heap]: the         *)
(* exception raised (NoError when it returns), the region returned and     *)
(* the heap after the call (a fresh list or array is appended to it).      *)
(***************************************************************************)
NoRegion == [type |-> "NONE"]

Raise(e, hp) == [err |-> e, obj |-> NoRegion, heap |-> hp]

Return(o, hp) == [err |-> NoError, obj |-> o, heap |-> hp]

\* Special.__init__(code): self._code = int(code)
SpecialInit(code) == [type |-> "SPECIAL", code |-> IntTrunc(code)]

\* Special.copy(): Special(self._code); the stored code is an int
SpecialCopy(self) == SpecialInit(2 * self.code)

\* a slip: every target type is served with a copy
SpecialConvertAny(self, rtype, hp) == Return(SpecialCopy(self), hp)

\* Special.convert(rtype)
SpecialConvert(self, rtype, hp) ==
    IF rtype = "SPECIAL" THEN Return(SpecialCopy(self), hp)
    ELSE Raise("ConversionException", hp)

\* Rectangle.__init__(x, y, width, height): the fields are stored as given
RectangleInit(x, y, width, height) ==
    [type |-> "RECTANGLE", x |-> x, y |-> y, width |-> width, height |-> height]

\* Rectangle.copy(): copy(self), a new object with the same field values
RectangleCopy(self) == self

\* Polygon.__init__(points): points is the caller's list, at heap[ref]; the
\* polygon keeps the reference and caches the length
PolygonInit(ref, hp) ==
    IF Len(hp[ref]) = 0 THEN Raise("AssertionError", hp)
    ELSE Return([type |-> "POLYGON", count |-> Len(hp[ref]), points |-> ref], hp)

\* Polygon.copy(): copy(self), a shallow copy: the new object holds the
\* same reference to the points list
PolygonCopy(self) == self

\* Mask._optimize(), on the fields (mask, offset)
MaskOptimize(mask, offset) ==
    LET bounds == mask2bbox(mask)
    IN  [mask   |-> Crop(mask, bounds[2], bounds[4], bounds[1], bounds[3]),
         offset |-> <<bounds[1], bounds[2]>>]

\* the fields (mask, offset) that Mask.__init__(mask, offset, optimize) sets
MaskFields(mask, offset, optimize) ==
    LET u8  == [rows |-> mask.rows, cols |-> mask.cols,
                d |-> [r \in 1..mask.rows |-> [c \in 1..mask.cols |->
                         AsUint8(mask.d[r][c])]]]
        bin == [rows |-> mask.rows, cols |-> mask.cols,
                d |-> [r \in 1..mask.rows |-> [c \in 1..mask.cols |->
                         IF u8.d[r][c] > 0 THEN 1 ELSE u8.d[r][c]]]]
    IN  IF optimize THEN MaskOptimize(bin, offset)
        ELSE [mask |-> bin, offset |-> offset]

\* Mask.__init__: astype makes a fresh array, which the new mask refers to
MaskInit(mask, offset, optimize, hp) ==
    LET f == MaskFields(mask, offset, optimize)
    IN  Return([type |-> "MASK", mask |-> Len(hp) + 1, offset |-> f.offset],
               Append(hp, f.mask))

\* Mask.copy(): copy(self), a shallow copy: the new object holds the same
\* reference to the array
MaskCopy(self) == self

\* a slip in the corner list: the lower corners add the width to y
RectanglePointsSquare(self) ==
    << <<self.x, self.y>>,
       <<self.x + self.width, self.y>>,
       <<self.x + self.width, self.y + self.width>>,
       <<self.x, self.y + self.width>> >>

\* the points list Rectangle.convert builds for a polygon
RectanglePoints(self) ==
    << <<self.x, self.y>>,
       <<self.x + self.width, self.y>>,
       <<self.x + self.width, self.y + self.height>>,
       <<self.x, self.y + self.height>> >>

\* a slip in the shape: (width, height) where numpy takes (rows, cols)
RectangleShapeSwapped(self) == <<Round(self.width), Round(self.height)>>

\* the shape (rows, cols) of the array Rectangle.convert builds for a mask
RectangleShape(self) == <<Round(self.height), Round(self.width)>>

\* Rectangle.convert(rtype)
RectangleConvert(self, rtype, hp) ==
    CASE rtype = "RECTANGLE" -> Return(RectangleCopy(self), hp)
      [] rtype = "POLYGON" ->
            PolygonInit(Len(hp) + 1, Append(hp, RectanglePoints(self)))
      [] rtype = "MASK" ->
            LET shape == RectangleShape(self)
            IN  IF shape[1] < 0 \/ shape[2] < 0 THEN Raise("ValueError", hp)
                ELSE MaskInit(Fill(shape[1], shape[2], 1),
                              <<Round(self.x), Round(self.y)>>, FALSE, hp)
      [] OTHER -> Raise("ConversionException", hp)

\* Polygon.convert(rtype).  The bounding box loop starts from
\* +-sys.float_info.max, which lies beyond every coordinate, so it yields the
\* minimum and maximum over the (non-empty) points list.  cvEmptyOk: whether
\* cv2.fillConvexPoly accepts an image with no pixels (the source does not
\* say, so both outcomes are allowed).
PolygonConvert(self, rtype, hp, cvEmptyOk) ==
    LET pts == hp[self.points]
        n   == Len(pts)
    IN
    CASE rtype = "POLYGON" -> Return(PolygonCopy(self), hp)
      [] rtype = "RECTANGLE" ->
            LET top    == SetMin({pts[i][2] : i \in 1..n})
                bottom == SetMax({pts[i][2] : i \in 1..n})
                left   == SetMin({pts[i][1] : i \in 1..n})
                right  == SetMax({pts[i][1] : i \in 1..n})
            IN  Return(RectangleInit(left, top, right - left, bottom - top), hp)
      [] rtype = "MASK" ->
            LET x_  == [i \in 1..n |-> Round(pts[i][1])]
                y_  == [i \in 1..n |-> Round(pts[i][2])]
                tl_ == <<Max2(0, SetMin({x_[i] : i \in 1..n})),
                         Max2(0, SetMin({y_[i] : i \in 1..n}))>>
                w_  == SetMax({x_[i] : i \in 1..n}) - tl_[1] + 1
                h_  == SetMax({y_[i] : i \in 1..n}) - tl_[2] + 1
                points_norm == [i \in 1..n |-> <<x_[i] - tl_[1], y_[i] - tl_[2]>>]
            IN  IF h_ < 0 \/ w_ < 0 THEN Raise("ValueError", hp)
                ELSE IF (h_ = 0 \/ w_ = 0) /\ ~cvEmptyOk THEN Raise("cv2.error", hp)
                ELSE MaskInit(fillConvexPoly(Fill(h_, w_, 0), points_norm),
                              tl_, FALSE, hp)
      [] OTHER -> Raise("ConversionException", hp)

\* Mask.convert(rtype); Rectangle and Polygon coordinates are in half units
MaskConvert(self, rtype, hp) ==
    LET bounds == mask2bbox(hp[self.mask])
    IN
    CASE rtype = "MASK" -> Return(MaskCopy(self), hp)
      [] rtype = "RECTANGLE" ->
            Return(RectangleInit(2 * (bounds[1] + self.offset[1]),
                                 2 * (bounds[2] + self.offset[2]),
                                 2 * (bounds[3] - bounds[1]),
                                 2 * (bounds[4] - bounds[2])), hp)
      [] rtype = "POLYGON" ->
            LET points == << <<2 * bounds[1], 2 * bounds[2]>>,
                             <<2 * bounds[3], 2 * bounds[2]>>,
                             <<2 * bounds[3], 2 * bounds[4]>>,
                             <<2 * bounds[1], 2 * bounds[4]>> >>
            IN  PolygonInit(Len(hp) + 1, Append(hp, points))
      [] OTHER -> Raise("ConversionException", hp)

\* the placement part of Mask.get_array (lines 277-299): the zero canvas of
\* the mask's natural extent with the clipped mask copied into it
GetArrayPlace(mask, offset) ==
    LET tl_x == offset[1]
        tl_y == offset[2]
        region_w == mask.cols
        region_h == mask.rows
        rows == region_h + tl_y
        cols == region_w + tl_x
    IN  IF rows < 0 \/ cols < 0 THEN [err |-> "ValueError", val |-> Fill(0, 0, 0)]
        ELSE
        LET mask_ == Fill(rows, cols, 0)
            dst_x0 == tl_x
            dst_y0 == tl_y
            dst_x1 == tl_x + region_w
            dst_y1 == tl_y + region_h
        IN  IF ~(dst_x1 > 0 /\ dst_y1 > 0 /\ dst_x0 < cols /\ dst_y0 < rows)
            THEN [err |-> NoError, val |-> mask_]
            ELSE
            LET src_x0 == IF dst_x0 < 0 THEN -dst_x0 ELSE 0
                cx0    == IF dst_x0 < 0 THEN 0 ELSE dst_x0
                src_y0 == IF dst_y0 < 0 THEN -dst_y0 ELSE 0
                cy0    == IF dst_y0 < 0 THEN 0 ELSE dst_y0
                src_x1 == IF dst_x1 > cols THEN region_w - (dst_x1 - cols)
                          ELSE region_w
                cx1    == IF dst_x1 > cols THEN cols ELSE dst_x1
                src_y1 == IF dst_y1 > rows THEN region_h - (dst_y1 - rows)
                          ELSE region_h
                cy1    == IF dst_y1 > rows THEN rows ELSE dst_y1
                src    == Crop(mask, src_y0, src_y1, src_x0, src_x1)
                dst    == Crop(mask_, cy0, cy1, cx0, cx1)
            IN  IF ~Broadcastable(src.rows, src.cols, dst.rows, dst.cols)
                THEN [err |-> "ValueError", val |-> Fill(0, 0, 0)]
                ELSE [err |-> NoError,
                      val |-> AssignSlice(mask_, cy0, cy1, cx0, cx1, src)]

\* a slip in the truncation: the last columns and rows are kept, not the first
GetArrayResizeTail(mask_, output_sz) ==
    LET pad_x0 == output_sz[1] - mask_.cols
        m1     == IF pad_x0 < 0
                  THEN Crop(mask_, 0, mask_.rows, -pad_x0, mask_.cols)
                  ELSE mask_
        pad_x  == IF pad_x0 < 0 THEN 0 ELSE pad_x0
        pad_y0 == output_sz[2] - m1.rows
        m2     == IF pad_y0 < 0
                  THEN Crop(m1, -pad_y0, m1.rows, 0, m1.cols)
                  ELSE m1
        pad_y  == IF pad_y0 < 0 THEN 0 ELSE pad_y0
    IN  PadZero(m2, pad_y, pad_x)

\* the resizing part of Mask.get_array (lines 302-313) for output_sz =
\* <<width, height>>: truncate at the right and the bottom, then pad
GetArrayResize(mask_, output_sz) ==
    LET pad_x0 == output_sz[1] - mask_.cols
        m1     == IF pad_x0 < 0
                  THEN Crop(mask_, 0, mask_.rows, 0, mask_.cols + pad_x0)
                  ELSE mask_
        pad_x  == IF pad_x0 < 0 THEN 0 ELSE pad_x0
        pad_y0 == output_sz[2] - m1.rows
        m2     == IF pad_y0 < 0
                  THEN Crop(m1, 0, m1.rows + pad_y0, 0, m1.cols)
                  ELSE m1
        pad_y  == IF pad_y0 < 0 THEN 0 ELSE pad_y0
    IN  PadZero(m2, pad_y, pad_x)

\* Mask.get_array(output_sz) on the fields (mask, offset); output_sz is <<>>
\* for None and <<width, height>> otherwise
GetArray(mask, offset, output_sz) ==
    LET placed == GetArrayPlace(mask, offset)
    IN  IF placed.err # NoError \/ output_sz = <<>> THEN placed
        ELSE [err |-> NoError, val |-> GetArrayResize(placed.val, output_sz)]

(***************************************************************************)
(* The inputs the model draws.                                             *)
(***************************************************************************)
\* arguments of Special(), in half units: the codes -1..3 and one fraction (1.5)
CodeArgs == {2 * k : k \in (-1)..3} \cup {3}

\* real coordinates, in half units: the whole values and one fraction (-0.5)
Coords == {2 * k : k \in (-MaxOff)..MaxOff} \cup {-1}

\* real widths and heights, in half units: the whole values, negative and
\* zero included, and one fraction (1.5)
Dims == {2 * k : k \in (-1)..MaxDim} \cup {3}

\* mask offsets, in pixels
Offsets == (-MaxShift)..MaxShift

\* vertices of constructed polygons, in half units: one at negative
\* coordinates, the origin, and two at fractional coordinates (1.5)
PolyPoints == {<<-2 * MaxOff - 2, -2 * MaxOff - 2>>, <<0, 0>>, <<3, 0>>, <<0, 3>>}

PointLists == UNION {[1..n -> PolyPoints] : n \in 0..MaxPts}

\* the nonzero values an input array holds: in range, beyond uint8, negative
RawVals == {2, 256, -1}

\* the shapes (rows, cols) of input arrays
Shapes == {sh \in (1..MaxCells) \X (1..MaxCells) : sh[1] * sh[2] <= MaxCells}

\* the arrays of zeros and ones of these shapes
Bitmaps ==
    UNION {{[rows |-> sh[1], cols |-> sh[2], d |-> p] :
               p \in [1..sh[1] -> [1..sh[2] -> {0, 1}]]} : sh \in Shapes}

\* input arrays of any integers: a bitmap whose ones are replaced by one raw
\* value
InputArrays ==
    {[rows |-> b.rows, cols |-> b.cols,
      d |-> [r \in 1..b.rows |-> [c \in 1..b.cols |-> b.d[r][c] * v]]] :
        <<b, v>> \in Bitmaps \X RawVals}

\* requested output sizes of get_array: None, or <<width, height>>
OutputSizes == {<<>>} \cup ((0..MaxOut) \X (0..MaxOut))

(***************************************************************************)
(* State.  objs: the region objects created so far; made[i]: how object i  *)
(* was made, [op, from, arg]; heap: the lists and arrays regions refer to; *)
(* ret: the last call, [op, self, arg, err, val].                          *)
(***************************************************************************)
Init ==
    /\ objs = <<>>
    /\ made = <<>>
    /\ heap = <<>>
    /\ ret  = [op |-> "start", self |-> 0, arg |-> <<>>, err |-> NoError, val |-> 0]

\* the state after a call that returns a new region or raises
Finish(op, self, arg, out) ==
    /\ heap' = out.heap
    /\ IF out.err = NoError
       THEN /\ objs' = Append(objs, out.obj)
            /\ made' = Append(made, [op |-> op, from |-> self, arg |-> arg])
            /\ ret'  = [op |-> op, self |-> self, arg |-> arg, err |-> NoError,
                        val |-> Len(objs) + 1]
       ELSE /\ UNCHANGED <<objs, made>>
            /\ ret'  = [op |-> op, self |-> self, arg |-> arg, err |-> out.err,
                        val |-> 0]

\* Special(code)
NewSpecial(code) ==
    /\ Finish("Special", 0, <<code>>, Return(SpecialInit(code), heap))

\* Rectangle(x, y, width, height)
NewRectangle(x, y, width, height) ==
    /\ Finish("Rectangle", 0, <<x, y, width, height>>,
              Return(RectangleInit(x, y, width, height), heap))

\* Polygon(points), points a list the caller holds
NewPolygon(points) ==
    /\ Finish("Polygon", 0, points, PolygonInit(Len(heap) + 1, Append(heap, points)))

\* Mask(mask, offset, optimize)
NewMask(mask, offset, optimize) ==
    /\ Finish("Mask", 0, [mask |-> mask, offset |-> offset, optimize |-> optimize],
              MaskInit(mask, offset, optimize, heap))

\* the copy() of each variant
CopyOf(self) ==
    CASE self.type = "SPECIAL"   -> SpecialCopy(self)
      [] self.type = "RECTANGLE" -> RectangleCopy(self)
      [] self.type = "POLYGON"   -> PolygonCopy(self)
      [] self.type = "MASK"      -> MaskCopy(self)

\* objs[i].copy()
Copy(i) ==
    /\ Finish("copy", i, <<>>, Return(CopyOf(objs[i]), heap))

\* the convert() of each variant
ConvertOf(self, rtype, hp, cvEmptyOk) ==
    CASE self.type = "SPECIAL"   -> SpecialConvert(self, rtype, hp)
      [] self.type = "RECTANGLE" -> RectangleConvert(self, rtype, hp)
      [] self.type = "POLYGON"   -> PolygonConvert(self, rtype, hp, cvEmptyOk)
      [] self.type = "MASK"      -> MaskConvert(self, rtype, hp)

\* objs[i].convert(rtype)
Convert(i, rtype) ==
    /\ \E cvEmptyOk \in BOOLEAN :
          Finish("convert", i, rtype, ConvertOf(objs[i], rtype, heap, cvEmptyOk))

\* objs[i].get_array(output_sz), on a mask
CallGetArray(i, output_sz) ==
    /\ objs[i].type = "MASK"
    /\ LET out == GetArray(heap[objs[i].mask], objs[i].offset, output_sz)
       IN  ret' = [op |-> "get_array", self |-> i, arg |-> output_sz,
                   err |-> out.err, val |-> out.val]
    /\ UNCHANGED <<objs, made, heap>>

\* the caller's objs[i].points[k] = p (Python index k - 1)
SetPoint(i, k, p) ==
    /\ objs[i].type = "POLYGON"
    /\ k \in DOMAIN heap[objs[i].points]
    /\ heap' = [heap EXCEPT ![objs[i].points][k] = p]
    /\ ret'  = [op |-> "setpoint", self |-> i, arg |-> <<k, p>>, err |-> NoError,
                val |-> 0]
    /\ UNCHANGED <<objs, made>>

\* the caller's objs[i].mask[r, c] = v (Python indices r - 1, c - 1)
SetCell(i, r, c, v) ==
    /\ objs[i].type = "MASK"
    /\ r \in 1..heap[objs[i].mask].rows
    /\ c \in 1..heap[objs[i].mask].cols
    /\ heap' = [heap EXCEPT ![objs[i].mask].d[r][c] = v]
    /\ ret'  = [op |-> "setcell", self |-> i, arg |-> <<r, c, v>>, err |-> NoError,
                val |-> 0]
    /\ UNCHANGED <<objs, made>>

\* A behaviour constructs one region and then calls methods on the region it
\* made last: regions do not interact, and no method changes its receiver.
ConstructShape ==
    /\ ret.op = "start"
    /\ \/ \E code \in CodeArgs : NewSpecial(code)
       \/ \E x, y \in Coords : \E width, height \in Dims :
             NewRectangle(x, y, width, height)
       \/ \E points \in PointLists : NewPolygon(points)

ConstructMask ==
    /\ ret.op = "start"
    /\ \E mask \in InputArrays : \E ox, oy \in Offsets : \E optimize \in BOOLEAN :
          NewMask(mask, <<ox, oy>>, optimize)

\* the regions that own mutable storage, from the smallest inputs: lists of
\* one or two vertices, arrays of one or two cells
ConstructStored ==
    /\ ret.op = "start"
    /\ \/ \E points \in {pl \in PointLists : Len(pl) \in {1, 2}} : NewPolygon(points)
       \/ \E mask \in {a \in InputArrays : a.rows * a.cols <= 2} :
             NewMask(mask, <<0, 0>>, FALSE)

\* masks given as bitmaps, not optimized
ConstructBitmap ==
    /\ ret.op = "start"
    /\ \E mask \in Bitmaps : \E ox, oy \in Offsets : NewMask(mask, <<ox, oy>>, FALSE)

Derive ==
    /\ objs # <<>>
    /\ Len(objs) < MaxObjs
    /\ \E rtype \in RegionType : Convert(Len(objs), rtype)

Query ==
    /\ objs # <<>>
    /\ \E output_sz \in OutputSizes : CallGetArray(Len(objs), output_sz)

\* r.copy() and r.convert(r.type()) of the region made last
Clone ==
    /\ objs # <<>>
    /\ Len(objs) < MaxObjs
    /\ \/ Copy(Len(objs))
       \/ Convert(Len(objs), objs[Len(objs)].type)

\* an in-place change, by the caller, of the storage a region refers to
Mutate ==
    \E i \in DOMAIN objs :
       \/ \E k \in 1..MaxPts : \E p \in PolyPoints : SetPoint(i, k, p)
       \/ \E r, c \in 1..MaxCells : \E v \in {0, 1} : SetCell(i, r, c, v)

\* conversions of special regions, rectangles and polygons
Next == ConstructShape \/ Derive

\* construction and conversions of masks
NextMask == ConstructMask \/ Derive

\* construction and compositing of masks
NextArray == ConstructBitmap \/ Query

\* clones of regions and in-place changes of their storage
NextAlias == ConstructStored \/ Clone \/ Mutate

Spec == Init /\ [][Next]_vars

SpecMask == Init /\ [][NextMask]_vars

SpecArray == Init /\ [][NextArray]_vars

SpecAlias == Init /\ [][NextAlias]_vars

(***************************************************************************)
(* Properties.                                                             *)
(***************************************************************************)
Abs(v) == IF v < 0 THEN -v ELSE v

\* the step is a call of convert on a Special region
SpecialConvertStep ==
    /\ ret'.op = "convert"
    /\ ret'.self \in DOMAIN objs
    /\ objs[ret'.self].type = "SPECIAL"

\* C1: Special.convert(t) raises the conversion error for RECTANGLE, POLYGON
\* and MASK and returns a new Special with the same code for SPECIAL; the
\* receiver's code is unchanged either way.
C1_SpecialConvert ==
    [][SpecialConvertStep =>
         /\ objs'[ret'.self] = objs[ret'.self]
         /\ IF ret'.arg = "SPECIAL"
            THEN /\ ret'.err = NoError
                 /\ ret'.val = Len(objs) + 1
                 /\ objs'[ret'.val].type = "SPECIAL"
                 /\ objs'[ret'.val].code = objs[ret'.self].code
            ELSE /\ ret'.err = "ConversionException"
                 /\ objs' = objs]_vars

\* Special(2) was converted to SPECIAL, and the copy refused RECTANGLE
C1_Witness ==
    /\ Len(objs) = 2
    /\ objs[1].type = "SPECIAL" /\ objs[1].code = 2
    /\ made[2].op = "convert" /\ made[2].arg = "SPECIAL"
    /\ objs[2].code = 2
    /\ ret.op = "convert" /\ ret.arg = "RECTANGLE"
    /\ ret.err = "ConversionException"

\* the storage an object refers to, in heap hp
Storage(o, hp) ==
    CASE o.type = "POLYGON" -> hp[o.points]
      [] o.type = "MASK"    -> hp[o.mask]
      [] OTHER              -> <<>>

\* j was made from i by copy() or by convert(i's own type), or i from j
IsCloneOf(i, j) ==
    \/ /\ made[j].from = i
       /\ \/ made[j].op = "copy"
          \/ made[j].op = "convert" /\ made[j].arg = objs[i].type
    \/ /\ made[i].from = j
       /\ \/ made[i].op = "copy"
          \/ made[i].op = "convert" /\ made[i].arg = objs[j].type

\* C2: a copy (copy(), or convert to the region's own type) is independent
\* of its original: an in-place change of the points or the bitmap of one
\* leaves the points and the bitmap of the other unchanged.
C2_CopyIndependent ==
    [][\A i, j \in DOMAIN objs :
          (/\ ret'.op \in {"setpoint", "setcell"}
           /\ ret'.self = j
           /\ i # j
           /\ IsCloneOf(i, j))
          => Storage(objs[i], heap') = Storage(objs[i], heap)]_vars

\* objs[1] is a rectangle, objs[2] its conversion to mid, and objs[3] the
\* conversion of objs[2] back to a rectangle
IsRoundTrip(mid) ==
    /\ Len(objs) = 3
    /\ objs[1].type = "RECTANGLE"
    /\ made[2].op = "convert" /\ made[2].arg = mid
    /\ made[3].op = "convert" /\ made[3].arg = "RECTANGLE"

\* the rectangle has integer x, y, width and height
WholeRectangle(r) ==
    IsWhole(r.x) /\ IsWhole(r.y) /\ IsWhole(r.width) /\ IsWhole(r.height)

\* C3, as stated: for every integer rectangle, zero and negative width or
\* height included, Rectangle -> Polygon -> Rectangle gives the same
\* (x, y, width, height).
C3_RoundTripAnySign ==
    (IsRoundTrip("POLYGON") /\ WholeRectangle(objs[1])) => objs[3] = objs[1]

\* C3, amended: for every integer rectangle, Rectangle -> Polygon ->
\* Rectangle gives the bounding box (min(x, x+w), min(y, y+h), |w|, |h|),
\* which is the same (x, y, w, h) when width and height are not negative.
C3_RoundTripBoundingBox ==
    (IsRoundTrip("POLYGON") /\ WholeRectangle(objs[1])) =>
       /\ objs[3] = RectangleInit(Min2(objs[1].x, objs[1].x + objs[1].width),
                                  Min2(objs[1].y, objs[1].y + objs[1].height),
                                  Abs(objs[1].width), Abs(objs[1].height))
       /\ (objs[1].width >= 0 /\ objs[1].height >= 0) => objs[3] = objs[1]

\* Rectangle(-1, 1, 2, 0), a degenerate rectangle, went through a polygon
C3_Witness ==
    /\ IsRoundTrip("POLYGON")
    /\ objs[1] = RectangleInit(-2, 2, 4, 0)
    /\ objs[3] = objs[1]

Tight(a) ==
    /\ a.rows > 0 /\ a.cols > 0
    /\ \E c \in 1..a.cols : a.d[1][c] # 0
    /\ \E c \in 1..a.cols : a.d[a.rows][c] # 0
    /\ \E r \in 1..a.rows : a.d[r][1] # 0
    /\ \E r \in 1..a.rows : a.d[r][a.cols] # 0

\* the state right after Mask(mask, offset, optimize) returned
MaskConstructed == ret.op = "Mask" /\ ret.err = NoError

\* C5: optimizing shifts the existing offset by the top-left corner of the
\* bounding box, and on a tight mask, at any offset, it changes neither the
\* bitmap nor the offset.
C5_OptimizeKeepsOffset ==
    (MaskConstructed /\ ret.arg.optimize) =>
       LET plain == MaskFields(ret.arg.mask, ret.arg.offset, FALSE)
           box   == mask2bbox(plain.mask)
       IN  /\ objs[1].offset = <<ret.arg.offset[1] + box[1],
                                 ret.arg.offset[2] + box[2]>>
           /\ Tight(plain.mask) =>
                 /\ heap[objs[1].mask] = plain.mask
                 /\ objs[1].offset = ret.arg.offset

\* the state right after a call of convert(rtype) on a region of type t
Converted(t, rtype) ==
    /\ ret.op = "convert"
    /\ ret.arg = rtype
    /\ objs[ret.self].type = t

\* C6: for a mask with a nonzero entry, Mask -> Polygon has the points of
\* Mask -> Rectangle -> Polygon: the corners of the bounding box with the
\* offset applied.
C6_MaskPolygonHasOffset ==
    (Converted("MASK", "POLYGON") /\ HasNonzero(heap[objs[ret.self].mask])) =>
       /\ ret.err = NoError
       /\ heap[objs[ret.val].points] =
             RectanglePoints(MaskConvert(objs[ret.self], "RECTANGLE", heap).obj)

Geometric == {"RECTANGLE", "POLYGON", "MASK"}

\* C7: every conversion from a Rectangle, Polygon or Mask to RECTANGLE,
\* POLYGON or MASK returns, without error, a region of the requested type.
C7_ConversionsTotal ==
    (/\ ret.op = "convert"
     /\ objs[ret.self].type \in Geometric
     /\ ret.arg \in Geometric)
    => /\ ret.err = NoError
       /\ objs[ret.val].type = ret.arg

\* C8: get_array returns without error a bitmap of exactly the requested
\* size, or of the natural extent (offset.y + rows, offset.x + cols) when no
\* size is requested, with every value 0 or 1.
C8_GetArrayShape ==
    ret.op = "get_array" =>
       LET B  == heap[objs[ret.self].mask]
           of == objs[ret.self].offset
       IN  /\ ret.err = NoError
           /\ IF ret.arg = <<>>
              THEN ret.val.rows = of[2] + B.rows /\ ret.val.cols = of[1] + B.cols
              ELSE ret.val.rows = ret.arg[2] /\ ret.val.cols = ret.arg[1]
           /\ \A r \in 1..ret.val.rows : \A c \in 1..ret.val.cols :
                 ret.val.d[r][c] \in {0, 1}

\* C9: every cell (row r, column c) of the canvas get_array returns is
\* B[r - oy][c - ox] where that lies in the bitmap and 0 elsewhere; and a
\* canvas is returned whenever the natural extent is not negative.
C9_GetArrayPlacement ==
    ret.op = "get_array" =>
       LET B  == heap[objs[ret.self].mask]
           ox == objs[ret.self].offset[1]
           oy == objs[ret.self].offset[2]
       IN  /\ (B.rows + oy >= 0 /\ B.cols + ox >= 0) => ret.err = NoError
           /\ ret.err = NoError =>
                 \A r \in 1..ret.val.rows : \A c \in 1..ret.val.cols :
                    ret.val.d[r][c] =
                       IF /\ 1 <= r - oy /\ r - oy <= B.rows
                          /\ 1 <= c - ox /\ c - ox <= B.cols
                       THEN B.d[r - oy][c - ox]
                       ELSE 0

\* a 2x2 all-ones mask at offset (-1, -1): the canvas is its one cell at
\* non-negative coordinates
C9_Witness ==
    /\ ret.op = "get_array" /\ ret.arg = <<>> /\ ret.err = NoError
    /\ objs[ret.self].offset = <<-1, -1>>
    /\ heap[objs[ret.self].mask] = Fill(2, 2, 1)
    /\ ret.val = Fill(1, 1, 1)

\* C10: Mask construction makes every nonzero input cell 1 and every zero
\* input cell 0.
C10_NonzeroBecomesOne ==
    (MaskConstructed /\ ~ret.arg.optimize) =>
       /\ heap[objs[1].mask].rows = ret.arg.mask.rows
       /\ heap[objs[1].mask].cols = ret.arg.mask.cols
       /\ \A r \in 1..ret.arg.mask.rows : \A c \in 1..ret.arg.mask.cols :
             heap[objs[1].mask].d[r][c] = IF ret.arg.mask.d[r][c] # 0 THEN 1 ELSE 0

==========================================================================
